---------------------------- MODULE Spec2Model ----------------------------
(***************************************************************************)
(* A model of PASGAL's single-source shortest-path driver:                 *)
(*   src/src/utils.h       atomic primitives (atomic_compare_and_swap,     *)
(*                         write_min, ...), UniDist, VectorReader,         *)
(*                         SourcePicker                                    *)
(*   src/src/SSSP/sssp.cpp run(), main() (two variants of the driver)      *)
(* The schedulers (Bellman_Ford, Delta_Stepping, Rho_Stepping) and the     *)
(* Dijkstra verifier live in sssp.h / dijkstra.h; they are modelled from   *)
(* the design document and marked as such where they are defined.          *)
(***************************************************************************)
EXTENDS Integers, Sequences, FiniteSets, Bags, TLC

(***************************************************************************)
(* Bounds of the model.                                                    *)
(***************************************************************************)
\* number of concurrent write_min callers on one location
NThreads == 3
\* values of the shared location and of the candidates: 0..MaxVal
MaxVal == 3
\* graphs of the solver runs: NumVerts vertices, at most MaxEdges edges,
\* weights 0..MaxWeight
NumVerts == 3
MaxEdges == 3
MaxWeight == 2
\* delta (Delta-Stepping) and rho (Rho-Stepping) range over 1..MaxParam
MaxParam == 2
\* width in bits of the modelled EdgeTy (a scaled-down uint32_t)
DistBits == 4
\* width in bits of the modelled NodeId (a scaled-down uint32_t) and of the
\* modelled random generator's result (a scaled-down std::mt19937_64)
NodeBits == 4
RngBits == 6
\* main: at most MaxArgs options on the command line; the arguments of -S
\* and -n range over 0..MaxCount; a sources file holds at most MaxFileLen
\* numbers
MaxArgs == 3
MaxCount == 2
MaxFileLen == 1
\* fetch_and_add: E is an unsigned integer of AddBits bits, the increments
\* are -1 .. MaxInc
AddBits == 3
MaxInc == 4

\* sssp.cpp:17-18 (first driver) and 219-220 (second driver)
NUM_SRC == 22
NUM_ROUND == 1
NUM_SRC2 == 1
NUM_ROUND2 == 22

VARIABLES
  \* ---- concurrent write_min callers on one location (utils.h:64-72)
  wm_a,       \* the shared location *a
  wm_b,       \* wm_b[t]: the candidate b of caller t
  wm_c,       \* wm_c[t]: the local c of caller t (last value loaded)
  wm_r,       \* wm_r[t]: the local r of caller t
  wm_pc,      \* wm_pc[t]: "load" | "cas" | "done"
  wm_x,       \* history: the value of *a before any call
  wm_stored,  \* history: wm_stored[t] = the values caller t stored into *a
  wm_failed   \* history: wm_failed[t] = number of failed CAS attempts of t

VARIABLES
  \* ---- one sssp(s) call of a scheduler followed by the verifier
  sv_edges,    \* the graph: a set of edges <<u, v, w>>
  sv_source,   \* the source vertex s
  sv_algo,     \* "bellman-ford" | "delta-stepping" | "rho-stepping"
  sv_param,    \* delta or rho (0 for bellman-ford)
  sv_distance, \* the distance array
  sv_pc,       \* "sched" | "relax" | "solved" | "passed" | "assert_failed"
  sv_frontier, \* bag of vertices: frontier / active part of the bucket /
               \* working set
  sv_tasks,    \* bag of the relaxations in flight in the current round
  sv_bucket,   \* delta-stepping: index of the bucket being processed
  sv_phase,    \* delta-stepping: "light" | "heavy" ("none" otherwise)
  sv_settled,  \* delta-stepping: vertices processed in the current bucket
  sv_round,    \* number of rounds started
  sv_retried,  \* history: some compare-and-swap of this call failed
  sv_longest,  \* run: longest_distance
  sv_reached   \* run: reached

VARIABLES
  \* ---- main of sssp.cpp, with the SourcePicker of utils.h
  mn_driver,       \* 1: sssp.cpp:1-201, 2: sssp.cpp:203-414
  mn_char_signed,  \* whether plain char is signed on the target
  mn_pc,           \* "getopt" | "read_graph" | "dispatch" | "loop" | "pick"
                   \* | "run" | "returned" | "aborted" | "exited"
                   \* | "crashed" | "undefined"
  mn_nopts,        \* number of options getopt has returned
  mn_opts,         \* the locals set by the options that main itself
                   \* reads: input_path, algorithm, source, rounds,
                   \* sources, sources_path
  mn_offsets,      \* G.offsets (<<>> until the graph is read)
  mn_file_sources, \* SourcePicker::file_sources_
  mn_current,      \* the function-local static current of PickNext
  mn_udist,        \* the UniDist: no_mod_, mod_, cutoff_
  mn_v,            \* the loop variable v of run
  mn_s,            \* the local s: the source picked
  mn_mode,         \* history: how s was obtained: "fixed" | "file" | "random"
  mn_bad_algo,     \* history: -a named an unknown algorithm
  mn_picks,        \* history: number of sources picked
  mn_sssp_calls,   \* history: number of sssp() calls made
  mn_rng_used      \* history: rng_() has been called

VARIABLES
  \* ---- calls of one UniDist object (utils.h:84-114)
  ud_max,   \* the constructor's argument max_value
  ud_dist,  \* the members no_mod_, mod_, cutoff_
  ud_pc,    \* "ready" | "loop" | "returned" | "undefined"
  ud_raw,   \* the last result of rng_()
  ud_ret    \* the value returned by the last call of operator()

VARIABLES
  \* ---- concurrent fetch_and_add / write_add callers on one location
  \* (utils.h:46-62)
  fa_a,     \* the shared location *a
  fa_kind,  \* fa_kind[t]: "fetch_and_add" | "write_add"
  fa_b,     \* fa_b[t]: the increment b of caller t
  fa_oldV,  \* fa_oldV[t]: the local oldV
  fa_newV,  \* fa_newV[t]: the local newV
  fa_pc,    \* fa_pc[t]: "load" | "cas" | "done"
  fa_ret,   \* fa_ret[t]: the value returned (fetch_and_add only)
  fa_x,     \* history: the value of *a before any call
  fa_hist   \* history: <<caller, value before>> of each successful
            \* compare-and-swap, in order

udVars == <<ud_max, ud_dist, ud_pc, ud_raw, ud_ret>>
faVars == <<fa_a, fa_kind, fa_b, fa_oldV, fa_newV, fa_pc, fa_ret, fa_x,
            fa_hist>>

mnVars == <<mn_driver, mn_char_signed, mn_pc, mn_nopts, mn_opts, mn_offsets,
            mn_file_sources, mn_current, mn_udist, mn_v, mn_s, mn_mode,
            mn_bad_algo, mn_picks, mn_sssp_calls, mn_rng_used>>

wmVars == <<wm_a, wm_b, wm_c, wm_r, wm_pc, wm_x, wm_stored, wm_failed>>
svVars == <<sv_edges, sv_source, sv_algo, sv_param, sv_distance, sv_pc,
            sv_frontier, sv_tasks, sv_bucket, sv_phase, sv_settled, sv_round,
            sv_retried, sv_longest, sv_reached>>

vars == <<wmVars, svVars, mnVars, udVars, faVars>>

(***************************************************************************)
(* Helpers.                                                                *)
(***************************************************************************)
SetMin(S) == CHOOSE m \in S : \A y \in S : m <= y
SetMax(S) == CHOOSE m \in S : \A y \in S : m >= y

(***************************************************************************)
(* utils.h:10-34  atomic_compare_and_swap(a, oldval, newval)               *)
(* __sync_bool_compare_and_swap: if *a = oldval, store newval and return   *)
(* true, else leave *a and return false.  cur is the value of *a when the  *)
(* instruction executes; val is the value of *a after it.                  *)
(***************************************************************************)
\* mutant: the old and the new value passed in the wrong order
atomic_compare_and_swap_swapped(cur, oldval, newval) ==
  [ok |-> cur = newval, val |-> IF cur = newval THEN oldval ELSE cur]

\* mutant: the new value is stored whatever the location holds
atomic_compare_and_swap_blind(cur, oldval, newval) ==
  [ok |-> TRUE, val |-> newval]

\* mutant: the narrower branch is taken, only the low half of the bits of
\* the new value is stored
atomic_compare_and_swap_low_bits(cur, oldval, newval) ==
  [ok |-> cur = oldval,
   val |-> IF cur = oldval THEN newval % (2 ^ (DistBits \div 2)) ELSE cur]

atomic_compare_and_swap(cur, oldval, newval) ==
  [ok |-> cur = oldval, val |-> IF cur = oldval THEN newval ELSE cur]

(***************************************************************************)
(* utils.h:64  F less = std::less<ET>                                      *)
(***************************************************************************)
\* mutant: non-strict comparison
less_or_equal(x, y) == x <= y

less(x, y) == x < y

(***************************************************************************)
(* utils.h:64-72  write_min(a, b), one caller t, one shared-memory access  *)
(* per step:                                                               *)
(*   do c = *a; while (less(b, c) && !(r = CAS(a, c, b)));  return r;      *)
(***************************************************************************)
Threads == 1..NThreads
Values == 0..MaxVal

\* c = *a; then the test less(b, c), which reads only locals: when it fails
\* the loop is left and r (still 0) is returned.
write_min_load(t) ==
  /\ wm_pc[t] = "load"
  /\ wm_c' = [wm_c EXCEPT ![t] = wm_a]
  /\ wm_pc' = [wm_pc EXCEPT ![t] = IF less(wm_b[t], wm_a) THEN "cas" ELSE "done"]
  /\ UNCHANGED <<wm_a, wm_b, wm_r, wm_x, wm_stored, wm_failed, svVars, mnVars, udVars, faVars>>

\* mutant: the result of the compare-and-swap is not kept in r
write_min_cas_drops_r(t) ==
  /\ wm_pc[t] = "cas"
  /\ LET res == atomic_compare_and_swap(wm_a, wm_c[t], wm_b[t]) IN
       /\ wm_a' = res.val
       /\ wm_pc' = [wm_pc EXCEPT ![t] = IF res.ok THEN "done" ELSE "load"]
       /\ wm_stored' = [wm_stored EXCEPT
                          ![t] = IF res.ok THEN Append(@, res.val) ELSE @]
       /\ wm_failed' = [wm_failed EXCEPT ![t] = IF res.ok THEN @ ELSE @ + 1]
  /\ UNCHANGED <<wm_b, wm_c, wm_r, wm_x, svVars, mnVars, udVars, faVars>>

\* mutant: a failed compare-and-swap is not retried
write_min_cas_no_retry(t) ==
  /\ wm_pc[t] = "cas"
  /\ LET res == atomic_compare_and_swap(wm_a, wm_c[t], wm_b[t]) IN
       /\ wm_a' = res.val
       /\ wm_r' = [wm_r EXCEPT ![t] = res.ok]
       /\ wm_pc' = [wm_pc EXCEPT ![t] = "done"]
       /\ wm_stored' = [wm_stored EXCEPT
                          ![t] = IF res.ok THEN Append(@, res.val) ELSE @]
       /\ wm_failed' = [wm_failed EXCEPT ![t] = IF res.ok THEN @ ELSE @ + 1]
  /\ UNCHANGED <<wm_b, wm_c, wm_x, svVars, mnVars, udVars, faVars>>

\* r = atomic_compare_and_swap(a, c, b); on success the loop is left and r
\* is returned, on failure the loop goes round to the load.
write_min_cas(t) ==
  /\ wm_pc[t] = "cas"
  /\ LET res == atomic_compare_and_swap(wm_a, wm_c[t], wm_b[t]) IN
       /\ wm_a' = res.val
       /\ wm_r' = [wm_r EXCEPT ![t] = res.ok]
       /\ wm_pc' = [wm_pc EXCEPT ![t] = IF res.ok THEN "done" ELSE "load"]
       /\ wm_stored' = [wm_stored EXCEPT
                          ![t] = IF res.ok THEN Append(@, res.val) ELSE @]
       /\ wm_failed' = [wm_failed EXCEPT ![t] = IF res.ok THEN @ ELSE @ + 1]
  /\ UNCHANGED <<wm_b, wm_c, wm_x, svVars, mnVars, udVars, faVars>>

write_min(t) == write_min_load(t) \/ write_min_cas(t)

\* No solver call is in progress.
IdleSV ==
  /\ sv_edges = {} /\ sv_source = 0 /\ sv_algo = "none" /\ sv_param = 0
  /\ sv_distance = <<>> /\ sv_pc = "idle" /\ sv_frontier = EmptyBag
  /\ sv_tasks = EmptyBag /\ sv_bucket = 0 /\ sv_phase = "none"
  /\ sv_settled = {} /\ sv_round = 0 /\ sv_retried = FALSE
  /\ sv_longest = 0 /\ sv_reached = 0

\* No main is running.
IdleMN ==
  /\ mn_driver = 0 /\ mn_char_signed = TRUE /\ mn_pc = "idle" /\ mn_nopts = 0
  /\ mn_opts = <<>> /\ mn_offsets = <<>> /\ mn_file_sources = <<>>
  /\ mn_current = 0 /\ mn_udist = <<>> /\ mn_v = 0 /\ mn_s = 0
  /\ mn_mode = "none" /\ mn_bad_algo = FALSE /\ mn_picks = 0
  /\ mn_sssp_calls = 0
  /\ mn_rng_used = FALSE

\* No UniDist is in use.
IdleUD ==
  /\ ud_max = 0 /\ ud_dist = <<>> /\ ud_pc = "idle" /\ ud_raw = 0
  /\ ud_ret = 0

\* No fetch_and_add or write_add is in progress.
IdleFA ==
  /\ fa_a = 0 /\ fa_kind = <<>> /\ fa_b = <<>> /\ fa_oldV = <<>>
  /\ fa_newV = <<>> /\ fa_pc = <<>> /\ fa_ret = <<>> /\ fa_x = 0
  /\ fa_hist = <<>>

\* The callers are interchangeable, so the candidates are drawn in
\* non-decreasing order of the caller's number.  ET c is uninitialised and
\* bool r = 0; c is assigned before it is first read.
InitWM ==
  /\ wm_a \in Values
  /\ wm_x = wm_a
  /\ wm_b \in {f \in [Threads -> Values] :
                 \A s, t \in Threads : s < t => f[s] <= f[t]}
  /\ wm_c = [t \in Threads |-> 0]
  /\ wm_r = [t \in Threads |-> FALSE]
  /\ wm_pc = [t \in Threads |-> "load"]
  /\ wm_stored = [t \in Threads |-> <<>>]
  /\ wm_failed = [t \in Threads |-> 0]
  /\ IdleSV
  /\ IdleMN
  /\ IdleUD
  /\ IdleFA

NextWM == \E t \in Threads : write_min(t)

SpecWM == InitWM /\ [][NextWM]_vars

\* Every caller is a running thread: it is scheduled again and again.
FairWM == SpecWM /\ \A t \in Threads : WF_vars(write_min(t))

WMAllDone == \A t \in Threads : wm_pc[t] = "done"


WMCandidates == {wm_b[t] : t \in Threads}
WMWinners(d) == {t \in Threads : wm_b[t] = d /\ wm_r[t]}

(***************************************************************************)
(* C1.  Once all write_min calls on a location have returned, the location *)
(* holds the minimum of its initial value and all the candidates; a caller *)
(* that has returned leaves the location at or below its candidate, and    *)
(* the location only ever holds the initial value or a candidate.          *)
(***************************************************************************)
C1_FinalIsMinimum ==
  /\ wm_a \in {wm_x} \cup WMCandidates
  /\ \A t \in Threads : wm_pc[t] = "done" => wm_a <= wm_b[t]
  /\ WMAllDone => wm_a = SetMin({wm_x} \cup WMCandidates)

\* all calls returned, one of them after losing a compare-and-swap to a
\* concurrent caller and then winning a later one
C1_Witness ==
  /\ WMAllDone
  /\ wm_a < wm_x
  /\ \E t \in Threads : wm_failed[t] >= 1 /\ wm_r[t] /\ wm_a = wm_b[t]

(***************************************************************************)
(* C2.  A write_min call returns true iff one of its own compare-and-swap  *)
(* attempts succeeded, i.e. iff it stored b (once); a call that returns    *)
(* false has stored nothing; a call that reads a value not larger than its *)
(* candidate leaves the location unchanged and returns false.              *)
(***************************************************************************)
C2_TrueIffStored ==
  /\ [](\A t \in Threads :
          /\ wm_stored[t] \in {<<>>, <<wm_b[t]>>}
          /\ wm_stored[t] # <<>> => wm_pc[t] = "done"
          /\ wm_pc[t] = "done" => (wm_r[t] <=> wm_stored[t] = <<wm_b[t]>>))
  /\ [][\A t \in Threads :
          (wm_pc[t] = "load" /\ wm_pc'[t] # "load" /\ wm_b[t] >= wm_a)
            => (wm_a' = wm_a /\ wm_pc'[t] = "done" /\ wm_r'[t] = FALSE)]_vars

\* a call that returned true although its value has since been overwritten
\* by a smaller one, beside a call that returned false
C2_Witness ==
  /\ WMAllDone
  /\ \E s, t \in Threads :
       /\ wm_r[s] /\ wm_a < wm_b[s]
       /\ ~wm_r[t] /\ wm_stored[t] = <<>>

(***************************************************************************)
(* C3 as stated: among the callers with a common candidate d (below the    *)
(* value the location held before the calls), exactly one observes true.   *)
(***************************************************************************)
C3_ExactlyOneWinner ==
  WMAllDone =>
    \A d \in WMCandidates :
      (d < wm_x /\ Cardinality({t \in Threads : wm_b[t] = d}) >= 2)
        => Cardinality(WMWinners(d)) = 1

(***************************************************************************)
(* C3 amended.  Among the callers with a common candidate d at most one    *)
(* observes true; exactly one does when d is smaller than the value the    *)
(* location held before the calls and no caller has a smaller candidate.   *)
(***************************************************************************)
C3_AtMostOneWinner ==
  /\ \A d \in WMCandidates : Cardinality(WMWinners(d)) <= 1
  /\ WMAllDone =>
       \A d \in WMCandidates :
         (d < wm_x /\ d = SetMin(WMCandidates))
           => Cardinality(WMWinners(d)) = 1

\* two callers with the same candidate raced on the compare-and-swap: one
\* won, the other failed, re-read and returned false, while a caller with
\* another candidate also wrote
C3_Witness ==
  /\ WMAllDone
  /\ \E s, t, u \in Threads :
       /\ s # t /\ wm_b[s] = wm_b[t] /\ wm_b[u] # wm_b[s]
       /\ wm_r[s] /\ ~wm_r[t] /\ wm_failed[t] >= 1
       /\ wm_r[u]

(***************************************************************************)
(* C4.  Monotonicity: no step of any write_min caller raises the value of  *)
(* the location.                                                           *)
(***************************************************************************)
C4_NonIncreasing == [][wm_a' <= wm_a]_vars

\* the location was lowered twice, by two different callers
C4_Witness ==
  \E s, t \in Threads :
    /\ s # t /\ wm_stored[s] # <<>> /\ wm_stored[t] # <<>>
    /\ wm_b[s] # wm_b[t]
    /\ wm_a < wm_x

(***************************************************************************)
(* C5.  Under a fair scheduler every write_min call returns; a compare-    *)
(* and-swap fails only when the location has dropped strictly below the    *)
(* value the caller read.                                                  *)
(***************************************************************************)
C5_EveryCallReturns ==
  /\ <>WMAllDone
  /\ [][\A t \in Threads :
          wm_failed'[t] > wm_failed[t] => wm_a < wm_c[t]]_vars

\* a call that went round its loop three times (two failed attempts)
C5_Witness ==
  WMAllDone /\ \E t \in Threads : wm_failed[t] >= 2 /\ wm_r[t]


(***************************************************************************)
(* The solver: one sssp(s) call of a scheduler, then the verifier          *)
(* (sssp.cpp:29 and 52-58).  The schedulers and the verifier are not in    *)
(* the sources at hand; their rounds are modelled from the design          *)
(* document (sections 4.2 to 4.5 and 5): a round launches one relaxation   *)
(* per out-edge of every active vertex, the relaxations of a round run     *)
(* concurrently in any interleaving, and a barrier ends the round.  Each   *)
(* relaxation is write_min(&distance[v], distance[u] + w) of utils.h.      *)
(***************************************************************************)
Verts == 0 .. NumVerts - 1
Weights == 0 .. MaxWeight

\* sssp.cpp:15  EdgeTy is an unsigned integer; DIST_MAX is its largest value
DIST_MAX == 2 ^ DistBits - 1
EdgeTyAdd(x, y) == (x + y) % (2 ^ DistBits)

\* Edges u -> v of weight w; parallel edges of different weights are allowed.
\* (A self-loop u -> u relaxes u with distance[u] + w >= distance[u] and
\* never writes; the graphs drawn have none.)
AllEdges == {e \in Verts \X Verts \X Weights : e[1] # e[2]}

RECURSIVE EdgeSets(_)
EdgeSets(k) ==
  IF k = 0 THEN {{}}
  ELSE LET S == EdgeSets(k - 1) IN
         S \cup {E \cup {e} : E \in S, e \in AllEdges}

OutEdges(E, u) == {e \in E : e[1] = u}

\* Design 4.5: the sequential Dijkstra verifier.  Pop the unvisited vertex
\* of minimum tentative distance, mark it visited, relax its out-edges.
RECURSIVE DijkstraLoop(_, _, _)
DijkstraLoop(E, dist, visited) ==
  LET queue == {v \in Verts \ visited : dist[v] # DIST_MAX} IN
    IF queue = {} THEN dist
    ELSE LET u == CHOOSE x \in queue : \A y \in queue : dist[x] <= dist[y]
             nd == [v \in Verts |->
                      SetMin({dist[v]} \cup
                             {EdgeTyAdd(dist[u], e[3]) :
                                e \in {f \in OutEdges(E, u) : f[2] = v}})]
         IN DijkstraLoop(E, nd, visited \cup {u})

InitialDistance(s) == [v \in Verts |-> IF v = s THEN 0 ELSE DIST_MAX]

dijkstra(E, s) == DijkstraLoop(E, InitialDistance(s), {})

\* The true shortest-path distances: the minimum weight of a walk from s,
\* DIST_MAX where there is none (NumVerts - 1 sweeps over all the edges).
RECURSIVE PathSweep(_, _, _)
PathSweep(E, d, k) ==
  IF k = 0 THEN d
  ELSE PathSweep(E,
         [v \in Verts |->
            SetMin({d[v]} \cup {d[e[1]] + e[3] :
                      e \in {f \in E : f[2] = v /\ d[f[1]] # DIST_MAX}})],
         k - 1)

ShortestDistance(E, s) == PathSweep(E, InitialDistance(s), NumVerts - 1)

RECURSIVE ReachSweep(_, _, _)
ReachSweep(E, R, k) ==
  IF k = 0 THEN R
  ELSE ReachSweep(E, R \cup {e[2] : e \in {f \in E : f[1] \in R}}, k - 1)

Reachable(E, s) == ReachSweep(E, {s}, NumVerts - 1)

(***************************************************************************)
(* The relaxations of a round.                                             *)
(***************************************************************************)
NewTask(e) ==
  [pc |-> "read", u |-> e[1], v |-> e[2], w |-> e[3], b |-> 0, c |-> 0,
   r |-> FALSE]

\* A relaxation that has returned: only its target and its result remain.
DoneTask(v, r) ==
  [pc |-> "done", u |-> 0, v |-> v, w |-> 0, b |-> 0, c |-> 0, r |-> r]

\* One relaxation per out-edge in E of every entry of the bag F of vertices.
TasksFor(F, E) ==
  LET S == {e \in E : e[1] \in DOMAIN F} IN
    [t \in {NewTask(e) : e \in S} |-> F[t.u]]

MoveTask(t, t2) == (sv_tasks (-) SetToBag({t})) (+) SetToBag({t2})

RoundOver == \A t \in DOMAIN sv_tasks : t.pc = "done"

\* The vertices whose relaxation returned true, once per such return.
Improved ==
  LET S == {t \in DOMAIN sv_tasks : t.pc = "done" /\ t.r} IN
    [v \in {t.v : t \in S} |-> sv_tasks[DoneTask(v, TRUE)]]

\* the argument of the call: distance[u] + w
relax_read(t) ==
  /\ sv_pc = "relax" /\ t.pc = "read"
  /\ sv_tasks' = MoveTask(t, [t EXCEPT !.pc = "load",
                                       !.b = EdgeTyAdd(sv_distance[t.u], t.w)])
  /\ UNCHANGED <<sv_edges, sv_source, sv_algo, sv_param, sv_distance, sv_pc,
                 sv_frontier, sv_bucket, sv_phase, sv_settled, sv_round,
                 sv_retried, sv_longest, sv_reached, wmVars, mnVars, udVars, faVars>>

\* utils.h:68-70  c = *a; less(b, c)
relax_load(t) ==
  /\ sv_pc = "relax" /\ t.pc = "load"
  /\ sv_tasks' = MoveTask(t, IF less(t.b, sv_distance[t.v])
                             THEN [t EXCEPT !.pc = "cas",
                                            !.c = sv_distance[t.v]]
                             ELSE DoneTask(t.v, FALSE))
  /\ UNCHANGED <<sv_edges, sv_source, sv_algo, sv_param, sv_distance, sv_pc,
                 sv_frontier, sv_bucket, sv_phase, sv_settled, sv_round,
                 sv_retried, sv_longest, sv_reached, wmVars, mnVars, udVars, faVars>>

\* utils.h:70-71  r = atomic_compare_and_swap(a, c, b); return r
relax_cas(t) ==
  /\ sv_pc = "relax" /\ t.pc = "cas"
  /\ LET res == atomic_compare_and_swap(sv_distance[t.v], t.c, t.b) IN
       /\ sv_distance' = [sv_distance EXCEPT ![t.v] = res.val]
       /\ sv_tasks' = MoveTask(t, IF res.ok THEN DoneTask(t.v, TRUE)
                                  ELSE [t EXCEPT !.pc = "load", !.c = 0])
       /\ sv_retried' = (sv_retried \/ ~res.ok)
  /\ UNCHANGED <<sv_edges, sv_source, sv_algo, sv_param, sv_pc, sv_frontier,
                 sv_bucket, sv_phase, sv_settled, sv_round, sv_longest, sv_reached, wmVars, mnVars, udVars, faVars>>

relax ==
  \E t \in DOMAIN sv_tasks : relax_read(t) \/ relax_load(t) \/ relax_cas(t)

(***************************************************************************)
(* Design 4.2: Bellman-Ford sweep.  The frontier starts as {source}; a     *)
(* round relaxes every out-edge of every frontier entry; every relaxation  *)
(* that returns true inserts its target into the next frontier (duplicate  *)
(* entries are kept); the sweep ends when the frontier is empty.           *)
(***************************************************************************)
bf_launch ==
  /\ sv_algo = "bellman-ford" /\ sv_pc = "sched"
  /\ sv_frontier # EmptyBag
  /\ sv_tasks' = TasksFor(sv_frontier, sv_edges)
  /\ sv_pc' = "relax"
  /\ sv_round' = sv_round + 1
  /\ UNCHANGED <<sv_edges, sv_source, sv_algo, sv_param, sv_distance,
                 sv_frontier, sv_bucket, sv_phase, sv_settled, sv_retried,
                 sv_longest, sv_reached, wmVars, mnVars, udVars, faVars>>

bf_barrier ==
  /\ sv_algo = "bellman-ford" /\ sv_pc = "relax"
  /\ RoundOver
  /\ sv_frontier' = Improved
  /\ sv_tasks' = EmptyBag
  /\ sv_pc' = "sched"
  /\ UNCHANGED <<sv_edges, sv_source, sv_algo, sv_param, sv_distance,
                 sv_bucket, sv_phase, sv_settled, sv_round, sv_retried,
                 sv_longest, sv_reached, wmVars, mnVars, udVars, faVars>>

bf_return ==
  /\ sv_algo = "bellman-ford" /\ sv_pc = "sched"
  /\ sv_frontier = EmptyBag
  /\ sv_pc' = "solved"
  /\ UNCHANGED <<sv_edges, sv_source, sv_algo, sv_param, sv_distance,
                 sv_frontier, sv_tasks, sv_bucket, sv_phase, sv_settled,
                 sv_round, sv_retried, sv_longest, sv_reached, wmVars, mnVars, udVars, faVars>>

(***************************************************************************)
(* Design 4.3: Delta-Stepping.  A vertex is in bucket floor(distance /     *)
(* delta).  Per bucket: light rounds (edges of weight <= delta) from the   *)
(* active vertices, re-admitting the targets that were improved and lie in *)
(* the same bucket, until none is; then one heavy round (weight > delta)   *)
(* from every vertex processed in the bucket; then the next non-empty      *)
(* bucket.                                                                 *)
(***************************************************************************)
BucketOf(d) == d \div sv_param
LightEdges == {e \in sv_edges : e[3] <= sv_param}
\* mutant: the heavy pass relaxes every edge
HeavyEdges_every_edge == sv_edges
HeavyEdges == {e \in sv_edges : e[3] > sv_param}
BucketMembers(k) ==
  {v \in Verts : sv_distance[v] # DIST_MAX /\ BucketOf(sv_distance[v]) = k}
LaterBuckets ==
  {BucketOf(sv_distance[v]) :
     v \in {x \in Verts : /\ sv_distance[x] # DIST_MAX
                          /\ BucketOf(sv_distance[x]) > sv_bucket}}

ds_launch_light ==
  /\ sv_algo = "delta-stepping" /\ sv_pc = "sched" /\ sv_phase = "light"
  /\ sv_frontier # EmptyBag
  /\ sv_tasks' = TasksFor(sv_frontier, LightEdges)
  /\ sv_settled' = sv_settled \cup BagToSet(sv_frontier)
  /\ sv_pc' = "relax"
  /\ sv_round' = sv_round + 1
  /\ UNCHANGED <<sv_edges, sv_source, sv_algo, sv_param, sv_distance,
                 sv_frontier, sv_bucket, sv_phase, sv_retried, sv_longest, sv_reached, wmVars, mnVars, udVars, faVars>>

ds_barrier_light ==
  /\ sv_algo = "delta-stepping" /\ sv_pc = "relax" /\ sv_phase = "light"
  /\ RoundOver
  /\ sv_frontier' = SetToBag(BagToSet(Improved) \cap BucketMembers(sv_bucket))
  /\ sv_tasks' = EmptyBag
  /\ sv_pc' = "sched"
  /\ UNCHANGED <<sv_edges, sv_source, sv_algo, sv_param, sv_distance,
                 sv_bucket, sv_phase, sv_settled, sv_round, sv_retried,
                 sv_longest, sv_reached, wmVars, mnVars, udVars, faVars>>

ds_launch_heavy ==
  /\ sv_algo = "delta-stepping" /\ sv_pc = "sched" /\ sv_phase = "light"
  /\ sv_frontier = EmptyBag
  /\ sv_phase' = "heavy"
  /\ sv_tasks' = TasksFor(SetToBag(sv_settled), HeavyEdges)
  /\ sv_pc' = "relax"
  /\ sv_round' = sv_round + 1
  /\ UNCHANGED <<sv_edges, sv_source, sv_algo, sv_param, sv_distance,
                 sv_frontier, sv_bucket, sv_settled, sv_retried, sv_longest, sv_reached, wmVars, mnVars, udVars, faVars>>

ds_barrier_heavy ==
  /\ sv_algo = "delta-stepping" /\ sv_pc = "relax" /\ sv_phase = "heavy"
  /\ RoundOver
  /\ sv_tasks' = EmptyBag
  /\ sv_settled' = {}
  /\ IF LaterBuckets = {}
     THEN /\ sv_pc' = "solved"
          /\ sv_phase' = "none"
          /\ UNCHANGED <<sv_bucket, sv_frontier>>
     ELSE /\ sv_pc' = "sched"
          /\ sv_phase' = "light"
          /\ sv_bucket' = SetMin(LaterBuckets)
          /\ sv_frontier' = SetToBag(BucketMembers(SetMin(LaterBuckets)))
  /\ UNCHANGED <<sv_edges, sv_source, sv_algo, sv_param, sv_distance,
                 sv_round, sv_retried, sv_longest, sv_reached, wmVars, mnVars, udVars, faVars>>

(***************************************************************************)
(* Design 4.4: Rho-Stepping.  A round takes up to rho vertices of smallest *)
(* tentative distance out of the working set (ties broken arbitrarily) and *)
(* relaxes all their out-edges; every vertex whose relaxation succeeded    *)
(* enters (or re-enters) the working set; the call ends when it is empty.  *)
(***************************************************************************)
Batches(W) ==
  {B \in SUBSET W :
     /\ Cardinality(B) = (IF Cardinality(W) < sv_param
                          THEN Cardinality(W) ELSE sv_param)
     /\ \A x \in B, y \in W \ B : sv_distance[x] <= sv_distance[y]}

rs_launch ==
  /\ sv_algo = "rho-stepping" /\ sv_pc = "sched"
  /\ sv_frontier # EmptyBag
  /\ \E B \in Batches(BagToSet(sv_frontier)) :
       /\ sv_tasks' = TasksFor(SetToBag(B), sv_edges)
       /\ sv_frontier' = SetToBag(BagToSet(sv_frontier) \ B)
  /\ sv_pc' = "relax"
  /\ sv_round' = sv_round + 1
  /\ UNCHANGED <<sv_edges, sv_source, sv_algo, sv_param, sv_distance,
                 sv_bucket, sv_phase, sv_settled, sv_retried, sv_longest, sv_reached, wmVars, mnVars, udVars, faVars>>

rs_barrier ==
  /\ sv_algo = "rho-stepping" /\ sv_pc = "relax"
  /\ RoundOver
  /\ sv_frontier' = SetToBag(BagToSet(sv_frontier) \cup BagToSet(Improved))
  /\ sv_tasks' = EmptyBag
  /\ sv_pc' = "sched"
  /\ UNCHANGED <<sv_edges, sv_source, sv_algo, sv_param, sv_distance,
                 sv_bucket, sv_phase, sv_settled, sv_round, sv_retried,
                 sv_longest, sv_reached, wmVars, mnVars, udVars, faVars>>

rs_return ==
  /\ sv_algo = "rho-stepping" /\ sv_pc = "sched"
  /\ sv_frontier = EmptyBag
  /\ sv_pc' = "solved"
  /\ UNCHANGED <<sv_edges, sv_source, sv_algo, sv_param, sv_distance,
                 sv_frontier, sv_tasks, sv_bucket, sv_phase, sv_settled,
                 sv_round, sv_retried, sv_longest, sv_reached, wmVars, mnVars, udVars, faVars>>

(***************************************************************************)
(* sssp.cpp:37-50 (and 239-252)  the reductions of run over the result:    *)
(*   longest_distance = *parlay::max_element(dist, not_max_cmp);           *)
(*   reached = parlay::count_if(dist, not_max);                            *)
(***************************************************************************)
\* mutant: the plain order, without the two DIST_MAX cases
not_max_cmp_plain(x, y) == x < y

not_max_cmp(x, y) ==
  IF y = DIST_MAX THEN FALSE
  ELSE IF x = DIST_MAX THEN TRUE
  ELSE x < y

\* mutant: every entry is counted
not_max_always(e) == TRUE

not_max(e) == e # DIST_MAX

\* max_element: the index of the first element that no other element is
\* greater than under the comparison; best is the index of the greatest
\* element among those before i.
RECURSIVE max_element_from(_, _, _)
max_element_from(dist, best, i) ==
  IF i \notin DOMAIN dist THEN best
  ELSE max_element_from(dist,
         IF not_max_cmp(dist[best], dist[i]) THEN i ELSE best, i + 1)

max_element(dist) == max_element_from(dist, 0, 1)

\* count_if: the number of elements from index i on that satisfy not_max
RECURSIVE count_if_from(_, _)
count_if_from(dist, i) ==
  IF i \notin DOMAIN dist THEN 0
  ELSE (IF not_max(dist[i]) THEN 1 ELSE 0) + count_if_from(dist, i + 1)

count_if(dist) == count_if_from(dist, 0)

run_report ==
  /\ sv_pc = "solved"
  /\ sv_longest' = sv_distance[max_element(sv_distance)]
  /\ sv_reached' = count_if(sv_distance)
  /\ sv_pc' = "reported"
  /\ UNCHANGED <<sv_edges, sv_source, sv_algo, sv_param, sv_distance,
                 sv_frontier, sv_tasks, sv_bucket, sv_phase, sv_settled,
                 sv_round, sv_retried, wmVars, mnVars, udVars, faVars>>

(***************************************************************************)
(* sssp.cpp:52-58 (and 254-260)  the verify branch of run:                 *)
(*   exp_dist = verifier.dijkstra(s); assert(dist == exp_dist);            *)
(***************************************************************************)
run_verify ==
  /\ sv_pc = "reported"
  /\ sv_pc' = IF sv_distance = dijkstra(sv_edges, sv_source)
              THEN "passed" ELSE "assert_failed"
  /\ UNCHANGED <<sv_edges, sv_source, sv_algo, sv_param, sv_distance,
                 sv_frontier, sv_tasks, sv_bucket, sv_phase, sv_settled,
                 sv_round, sv_retried, sv_longest, sv_reached, wmVars, mnVars, udVars, faVars>>

IdleWM ==
  /\ wm_a = 0 /\ wm_x = 0
  /\ wm_b = <<>> /\ wm_c = <<>> /\ wm_r = <<>> /\ wm_pc = <<>>
  /\ wm_stored = <<>> /\ wm_failed = <<>>

Algorithms ==
  {<<"bellman-ford", 0>>}
    \cup {<<"delta-stepping", p>> : p \in 1 .. MaxParam}
    \cup {<<"rho-stepping", p>> : p \in 1 .. MaxParam}

\* The state at the start of sssp(s): the distance array is DIST_MAX
\* everywhere except 0 at the source, and the working set is {source}.
InitSolve ==
  /\ sv_edges \in EdgeSets(MaxEdges)
  /\ sv_source \in Verts
  /\ \E al \in Algorithms : sv_algo = al[1] /\ sv_param = al[2]
  /\ sv_distance = InitialDistance(sv_source)
  /\ sv_pc = "sched"
  /\ sv_frontier = SetToBag({sv_source})
  /\ sv_tasks = EmptyBag
  /\ sv_bucket = 0
  /\ sv_phase = IF sv_algo = "delta-stepping" THEN "light" ELSE "none"
  /\ sv_settled = {}
  /\ sv_round = 0
  /\ sv_retried = FALSE
  /\ sv_longest = 0
  /\ sv_reached = 0
  /\ IdleWM
  /\ IdleMN
  /\ IdleUD
  /\ IdleFA

NextSolve ==
  \/ relax
  \/ bf_launch \/ bf_barrier \/ bf_return
  \/ ds_launch_light \/ ds_barrier_light \/ ds_launch_heavy
  \/ ds_barrier_heavy
  \/ rs_launch \/ rs_barrier \/ rs_return
  \/ run_report
  \/ run_verify

SpecSolve == InitSolve /\ [][NextSolve]_vars

(***************************************************************************)
(* C6.  Oracle equivalence: whatever the interleaving of the relaxations   *)
(* inside the rounds, the distance array a scheduler returns equals the    *)
(* Dijkstra verifier's, with DIST_MAX exactly at the vertices that cannot  *)
(* be reached from the source; the assertion of run never fails.           *)
(***************************************************************************)
C6_OracleEquivalence ==
  /\ sv_pc # "assert_failed"
  /\ sv_pc \in {"solved", "reported", "passed"} =>
       /\ sv_distance = dijkstra(sv_edges, sv_source)
       /\ \A v \in Verts :
            sv_distance[v] = DIST_MAX <=> v \notin Reachable(sv_edges, sv_source)

\* the verifier passed a result that has an unreachable vertex and was
\* computed with a lost compare-and-swap race
C6_Witness ==
  /\ sv_pc = "passed"
  /\ sv_retried
  /\ \E v \in Verts : sv_distance[v] = DIST_MAX
  /\ \E v \in Verts : sv_distance[v] \notin {0, DIST_MAX}

(***************************************************************************)
(* C7.  Global distance invariant: at every point of a solver call each    *)
(* distance[v] is DIST_MAX or at least the true shortest-path distance     *)
(* from the source to v.                                                   *)
(***************************************************************************)
C7_UpperBound ==
  sv_pc # "idle" =>
    LET d == ShortestDistance(sv_edges, sv_source) IN
      \A v \in Verts : sv_distance[v] = DIST_MAX \/ sv_distance[v] >= d[v]

\* a tentative distance that is still strictly above the true one, while
\* another relaxation of the same round is in flight
C7_Witness ==
  /\ sv_pc = "relax"
  /\ \E t \in DOMAIN sv_tasks : t.pc = "cas"
  /\ \E v \in Verts :
       /\ sv_distance[v] # DIST_MAX
       /\ sv_distance[v] > ShortestDistance(sv_edges, sv_source)[v]

(***************************************************************************)
(* C10.  DIST_MAX loses the longest-distance reduction: when the result    *)
(* has an entry other than DIST_MAX, the longest distance reported is the  *)
(* maximum of the entries other than DIST_MAX, and the number of nodes     *)
(* reached is the number of such entries.                                  *)
(***************************************************************************)
C10_LongestAndReached ==
  sv_pc \in {"reported", "passed", "assert_failed"} =>
    LET finite == {v \in Verts : sv_distance[v] # DIST_MAX} IN
      /\ sv_reached = Cardinality(finite)
      /\ finite # {} =>
           /\ sv_longest # DIST_MAX
           /\ sv_longest = SetMax({sv_distance[v] : v \in finite})

\* a reported result in which an unreached vertex lies between two reached
\* ones and the longest distance is that of the first
C10_Witness ==
  /\ sv_pc = "reported"
  /\ sv_reached = 2
  /\ sv_distance[0] # DIST_MAX /\ sv_distance[0] > 0
  /\ sv_distance[1] = DIST_MAX
  /\ sv_longest = sv_distance[0]

(***************************************************************************)
(* utils.h:84-114  UniDist<NodeID_, rng_t_>, as SourcePicker and run       *)
(* instantiate it: NodeID_ = uNodeID_ = NodeId (unsigned, NodeBits wide),  *)
(* rng_t_ = std::mt19937_64 (results RngBits wide).                        *)
(***************************************************************************)
UINT_MAX == 2 ^ NodeBits - 1
RNG_MAX == 2 ^ RngBits - 1
\* conversion to uNodeID_
ToNodeID(x) == x % (2 ^ NodeBits)

\* utils.h:88-96  the constructor
UniDist_new(max_value) ==
  LET mod_ == ToNodeID(max_value + 1)
      remainder_sub_1 == ToNodeID(RNG_MAX % mod_)
  IN [no_mod_ |-> (RNG_MAX = ToNodeID(max_value)),
      mod_ |-> mod_,
      cutoff_ |-> IF remainder_sub_1 = ToNodeID(mod_ - 1) THEN 0
                  ELSE ToNodeID(RNG_MAX - remainder_sub_1)]

\* utils.h:99-105  rand_num = rng_() is drawn again
UniDist_redraws(ud, raw) ==
  ~ud.no_mod_ /\ ud.cutoff_ # 0 /\ ToNodeID(raw) >= ud.cutoff_

\* utils.h:99-106  the value returned for an accepted rand_num
UniDist_value(ud, raw) ==
  IF ud.no_mod_ THEN ToNodeID(raw) ELSE ToNodeID(raw) % ud.mod_

(***************************************************************************)
(* utils.h:127-143  VectorReader::Read.  A file is its numbers and whether *)
(* white space follows the last one.  The loop tests eof() before each     *)
(* extraction: when only white space (or nothing) is left, the extraction  *)
(* fails without touching the uninitialised local source, which is pushed. *)
(***************************************************************************)
Indeterminate == 0 .. NumVerts

Files ==
  {[nums |-> q, ws |-> w] :
     q \in UNION {[1 .. k -> {0, NumVerts - 1}] : k \in 0 .. MaxFileLen},
     w \in BOOLEAN}

ReadResults(f) ==
  IF f.nums # <<>> /\ ~f.ws THEN {f.nums}
  ELSE {Append(f.nums, x) : x \in Indeterminate}

(***************************************************************************)
(* sssp.cpp:80-201 and 289-414  main.                                      *)
(***************************************************************************)
AlgorithmNames == {"rho-stepping", "delta-stepping", "bellman-ford"}

\* G.offsets of a graph of NumVerts vertices and at most MaxEdges edges
OffsetArrays ==
  {o \in [0 .. NumVerts -> 0 .. MaxEdges] :
     o[0] = 0 /\ \A i \in 1 .. NumVerts : o[i - 1] <= o[i]}

Degree(v) == mn_offsets[v + 1] - mn_offsets[v]

\* sssp.cpp:98-108 (306-315)  the locals before the option loop
InitMain ==
  /\ mn_driver \in {1, 2}
  /\ mn_char_signed \in BOOLEAN
  /\ mn_pc = "getopt"
  /\ mn_nopts = 0
  /\ mn_opts = [input_path |-> "", algorithm |-> "rho-stepping",
                source |-> UINT_MAX,
                rounds |-> IF mn_driver = 1 THEN NUM_ROUND ELSE NUM_ROUND2,
                sources |-> IF mn_driver = 1 THEN NUM_SRC ELSE NUM_SRC2,
                sources_path |-> ""]
  /\ mn_offsets = <<>>
  /\ mn_file_sources = <<>>
  /\ mn_current = 0
  /\ mn_udist = <<>>
  /\ mn_v = 0
  /\ mn_s = 0
  /\ mn_mode = "none"
  /\ mn_bad_algo = FALSE
  /\ mn_picks = 0
  /\ mn_sssp_calls = 0
  /\ mn_rng_used = FALSE
  /\ IdleWM
  /\ IdleSV
  /\ IdleUD
  /\ IdleFA

\* sssp.cpp:81-97  argc == 1: the usage text, return 0
main_usage ==
  /\ mn_pc = "getopt" /\ mn_nopts = 0
  /\ mn_pc' = "returned"
  /\ UNCHANGED <<mn_driver, mn_char_signed, mn_nopts, mn_opts, mn_offsets,
                 mn_file_sources, mn_current, mn_udist, mn_v, mn_s, mn_mode,
                 mn_bad_algo, mn_picks, mn_sssp_calls, mn_rng_used,
                 wmVars, svVars, udVars, faVars>>

\* getopt returns one more option, whose case leaves the locals as newopts
getopt_option(newopts) ==
  /\ mn_pc = "getopt" /\ mn_nopts < MaxArgs
  /\ mn_nopts' = mn_nopts + 1
  /\ mn_opts' = newopts
  /\ UNCHANGED <<mn_driver, mn_char_signed, mn_pc, mn_offsets,
                 mn_file_sources, mn_current, mn_udist, mn_v, mn_s, mn_mode,
                 mn_bad_algo, mn_picks, mn_sssp_calls, mn_rng_used,
                 wmVars, svVars, udVars, faVars>>

\* getopt returns one more option, whose case calls abort()
getopt_abort(bad) ==
  /\ mn_pc = "getopt" /\ mn_nopts < MaxArgs
  /\ mn_nopts' = mn_nopts + 1
  /\ mn_pc' = "aborted"
  /\ mn_bad_algo' = (mn_bad_algo \/ bad)
  /\ UNCHANGED <<mn_driver, mn_char_signed, mn_opts, mn_offsets,
                 mn_file_sources, mn_current, mn_udist, mn_v, mn_s, mn_mode,
                 mn_picks, mn_sssp_calls, mn_rng_used,
                 wmVars, svVars, udVars, faVars>>

\* sssp.cpp:112-114
opt_i == getopt_option([mn_opts EXCEPT !.input_path = "graph"])

\* sssp.cpp:115-121
opt_a ==
  \E name \in AlgorithmNames :
    getopt_option([mn_opts EXCEPT !.algorithm = name])

\* mutant: the error is printed and the option loop goes on
opt_a_unknown_goes_on ==
  /\ mn_pc = "getopt" /\ mn_nopts < MaxArgs
  /\ mn_nopts' = mn_nopts + 1
  /\ mn_bad_algo' = TRUE
  /\ UNCHANGED <<mn_driver, mn_char_signed, mn_pc, mn_opts, mn_offsets,
                 mn_file_sources, mn_current, mn_udist, mn_v, mn_s, mn_mode,
                 mn_picks, mn_sssp_calls, mn_rng_used,
                 wmVars, svVars, udVars, faVars>>

\* sssp.cpp:122-125  any other name: "Error: Unknown algorithm", abort()
opt_a_unknown == getopt_abort(TRUE)

\* sssp.cpp:127-129  parameter is handed to the solver's constructor
opt_p == getopt_option(mn_opts)

\* sssp.cpp:130-132  source = atol(optarg)
opt_r == \E k \in Verts : getopt_option([mn_opts EXCEPT !.source = k])

\* sssp.cpp:133-141  symmetrized is handed to the graph, verify and dump
\* to run (whose verify branch is run_verify above)
opt_s == getopt_option(mn_opts)
opt_v == getopt_option(mn_opts)
opt_d == getopt_option(mn_opts)

\* sssp.cpp:142-147
opt_n == \E k \in 0 .. MaxCount : getopt_option([mn_opts EXCEPT !.rounds = k])
opt_S == \E k \in 0 .. MaxCount : getopt_option([mn_opts EXCEPT !.sources = k])

\* sssp.cpp:148-150  only the first driver's option string has "z:"
opt_z ==
  /\ mn_driver = 1
  /\ \E path \in {"", "sources"} :
       getopt_option([mn_opts EXCEPT !.sources_path = path])

\* sssp.cpp:151-153  '?': an option that is not in the option string (for
\* the second driver -z is one) or lacks its argument
opt_unknown == getopt_abort(FALSE)

\* sssp.cpp:110  getopt returns -1.  c is a plain char: where char is
\* unsigned, c is 255, the loop is entered and the default case aborts.
getopt_end ==
  /\ mn_pc = "getopt"
  /\ mn_pc' = IF mn_char_signed THEN "read_graph" ELSE "aborted"
  /\ UNCHANGED <<mn_driver, mn_char_signed, mn_nopts, mn_opts, mn_offsets,
                 mn_file_sources, mn_current, mn_udist, mn_v, mn_s, mn_mode,
                 mn_bad_algo, mn_picks, mn_sssp_calls, mn_rng_used,
                 wmVars, svVars, udVars, faVars>>

\* sssp.cpp:157-172  the graph is read (or generated).  Without -i,
\* input_path is a null pointer passed to strcmp.
main_read_graph ==
  /\ mn_pc = "read_graph"
  /\ IF mn_opts.input_path = ""
     THEN mn_pc' = "undefined" /\ UNCHANGED mn_offsets
     ELSE mn_pc' = "dispatch" /\ mn_offsets' \in OffsetArrays
  /\ UNCHANGED <<mn_driver, mn_char_signed, mn_nopts, mn_opts,
                 mn_file_sources, mn_current, mn_udist, mn_v, mn_s, mn_mode,
                 mn_bad_algo, mn_picks, mn_sssp_calls, mn_rng_used,
                 wmVars, svVars, udVars, faVars>>

\* sssp.cpp:174-199 and utils.h:167-174  the first driver constructs the
\* SourcePicker (which reads the sources file when one is named; a file
\* that cannot be opened ends the process) and enters run(.., sp, sources, ..)
sp_construct ==
  /\ mn_pc = "dispatch" /\ mn_driver = 1
  /\ mn_udist' = UniDist_new(NumVerts - 1)
  /\ IF mn_opts.sources_path = ""
     THEN mn_pc' = "loop" /\ UNCHANGED mn_file_sources
     ELSE \/ mn_pc' = "exited" /\ UNCHANGED mn_file_sources
          \/ /\ mn_pc' = "loop"
             /\ \E f \in Files : mn_file_sources' \in ReadResults(f)
  /\ UNCHANGED <<mn_driver, mn_char_signed, mn_nopts, mn_opts, mn_offsets,
                 mn_current, mn_v, mn_s, mn_mode, mn_bad_algo, mn_picks,
                 mn_sssp_calls, mn_rng_used,
                 wmVars, svVars, udVars, faVars>>

\* sssp.cpp:378-412 and 271-275  the second driver: with no -r,
\* run(.., sources, ..) with its own generator; with -r, one run(.., source, ..)
d2_dispatch ==
  /\ mn_pc = "dispatch" /\ mn_driver = 2
  /\ IF mn_opts.source = UINT_MAX
     THEN /\ mn_udist' = UniDist_new(NumVerts - 1)
          /\ mn_pc' = "loop"
          /\ UNCHANGED <<mn_s, mn_mode, mn_picks>>
     ELSE /\ mn_s' = mn_opts.source
          /\ mn_mode' = "fixed"
          /\ mn_picks' = mn_picks + 1
          /\ mn_pc' = "run"
          /\ UNCHANGED mn_udist
  /\ UNCHANGED <<mn_driver, mn_char_signed, mn_nopts, mn_opts, mn_offsets,
                 mn_file_sources, mn_current, mn_v, mn_bad_algo,
                 mn_sssp_calls, mn_rng_used,
                 wmVars, svVars, udVars, faVars>>

\* sssp.cpp:72 (277)  v < sources fails: run returns, main returns 0
loop_exit ==
  /\ mn_pc = "loop" /\ ~(mn_v < mn_opts.sources)
  /\ mn_pc' = "returned"
  /\ UNCHANGED <<mn_driver, mn_char_signed, mn_nopts, mn_opts, mn_offsets,
                 mn_file_sources, mn_current, mn_udist, mn_v, mn_s, mn_mode,
                 mn_bad_algo, mn_picks, mn_sssp_calls, mn_rng_used,
                 wmVars, svVars, udVars, faVars>>

\* mutant: the fixed source is returned after the file cursor has moved
picknext_fixed_moves_cursor ==
  /\ mn_pc = "loop" /\ mn_v < mn_opts.sources /\ mn_driver = 1
  /\ mn_opts.source # UINT_MAX
  /\ mn_s' = mn_opts.source
  /\ mn_mode' = "fixed"
  /\ mn_picks' = mn_picks + 1
  /\ mn_pc' = "run"
  /\ mn_current' = mn_current + 1
  /\ UNCHANGED <<mn_driver, mn_char_signed, mn_nopts, mn_opts, mn_offsets,
                 mn_file_sources, mn_udist, mn_v, mn_bad_algo,
                 mn_sssp_calls, mn_rng_used,
                 wmVars, svVars, udVars, faVars>>

\* utils.h:177-179  PickNext, fixed source
picknext_fixed ==
  /\ mn_pc = "loop" /\ mn_v < mn_opts.sources /\ mn_driver = 1
  /\ mn_opts.source # UINT_MAX
  /\ mn_s' = mn_opts.source
  /\ mn_mode' = "fixed"
  /\ mn_picks' = mn_picks + 1
  /\ mn_pc' = "run"
  /\ UNCHANGED <<mn_driver, mn_char_signed, mn_nopts, mn_opts, mn_offsets,
                 mn_file_sources, mn_current, mn_udist, mn_v, mn_bad_algo,
                 mn_sssp_calls, mn_rng_used,
                 wmVars, svVars, udVars, faVars>>

\* mutant: the cursor is read but not advanced
picknext_file_keeps_cursor ==
  /\ mn_pc = "loop" /\ mn_v < mn_opts.sources /\ mn_driver = 1
  /\ mn_opts.source = UINT_MAX
  /\ mn_file_sources # <<>>
  /\ IF mn_current < Len(mn_file_sources)
     THEN /\ mn_s' = mn_file_sources[mn_current + 1]
          /\ mn_pc' = "run"
     ELSE \/ mn_s' \in Indeterminate /\ mn_pc' = "run"
          \/ mn_s' = mn_s /\ mn_pc' = "crashed"
  /\ mn_current' = mn_current
  /\ mn_mode' = "file"
  /\ mn_picks' = mn_picks + 1
  /\ UNCHANGED <<mn_driver, mn_char_signed, mn_nopts, mn_opts, mn_offsets,
                 mn_file_sources, mn_udist, mn_v, mn_bad_algo,
                 mn_sssp_calls, mn_rng_used,
                 wmVars, svVars, udVars, faVars>>

\* utils.h:181-185  PickNext, file sources: file_sources_[current++].
\* Past the end of the vector the read is undefined: it yields whatever
\* lies there, or the process crashes.
picknext_file ==
  /\ mn_pc = "loop" /\ mn_v < mn_opts.sources /\ mn_driver = 1
  /\ mn_opts.source = UINT_MAX
  /\ mn_file_sources # <<>>
  /\ IF mn_current < Len(mn_file_sources)
     THEN /\ mn_s' = mn_file_sources[mn_current + 1]
          /\ mn_pc' = "run"
     ELSE \/ mn_s' \in Indeterminate /\ mn_pc' = "run"
          \/ mn_s' = mn_s /\ mn_pc' = "crashed"
  /\ mn_current' = mn_current + 1
  /\ mn_mode' = "file"
  /\ mn_picks' = mn_picks + 1
  /\ UNCHANGED <<mn_driver, mn_char_signed, mn_nopts, mn_opts, mn_offsets,
                 mn_file_sources, mn_udist, mn_v, mn_bad_algo,
                 mn_sssp_calls, mn_rng_used,
                 wmVars, svVars, udVars, faVars>>

\* utils.h:187-189 and sssp.cpp:278-279  the random draw loop is entered
pick_enter ==
  /\ mn_pc = "loop" /\ mn_v < mn_opts.sources
  /\ mn_driver = 1 => (mn_opts.source = UINT_MAX /\ mn_file_sources = <<>>)
  /\ mn_pc' = "pick"
  /\ UNCHANGED <<mn_driver, mn_char_signed, mn_nopts, mn_opts, mn_offsets,
                 mn_file_sources, mn_current, mn_udist, mn_v, mn_s, mn_mode,
                 mn_bad_algo, mn_picks, mn_sssp_calls, mn_rng_used,
                 wmVars, svVars, udVars, faVars>>

\* mutant: the degree of the vertex drawn is not looked at
pick_draw_any_degree ==
  /\ mn_pc = "pick"
  /\ mn_rng_used' = TRUE
  /\ \E raw \in 0 .. RNG_MAX :
       IF UniDist_redraws(mn_udist, raw)
       THEN UNCHANGED <<mn_s, mn_pc, mn_mode, mn_picks>>
       ELSE /\ mn_s' = UniDist_value(mn_udist, raw)
            /\ mn_pc' = "run" /\ mn_mode' = "random"
            /\ mn_picks' = mn_picks + 1
  /\ UNCHANGED <<mn_driver, mn_char_signed, mn_nopts, mn_opts, mn_offsets,
                 mn_file_sources, mn_current, mn_udist, mn_v, mn_bad_algo,
                 mn_sssp_calls, wmVars, svVars, udVars, faVars>>

\* utils.h:189-194 (sssp.cpp:279-282) with utils.h:98-107: one result raw
\* of the generator.  UniDist draws again when raw is at or above the
\* cutoff; otherwise s = udist_(), deg = offsets[s + 1] - offsets[s], and
\* the loop goes round while deg == 0.
pick_draw ==
  /\ mn_pc = "pick"
  /\ mn_rng_used' = TRUE
  /\ \E raw \in 0 .. RNG_MAX :
       IF UniDist_redraws(mn_udist, raw)
       THEN UNCHANGED <<mn_s, mn_pc, mn_mode, mn_picks>>
       ELSE /\ mn_s' = UniDist_value(mn_udist, raw)
            /\ IF Degree(UniDist_value(mn_udist, raw)) = 0
               THEN UNCHANGED <<mn_pc, mn_mode, mn_picks>>
               ELSE /\ mn_pc' = "run" /\ mn_mode' = "random"
                    /\ mn_picks' = mn_picks + 1
  /\ UNCHANGED <<mn_driver, mn_char_signed, mn_nopts, mn_opts, mn_offsets,
                 mn_file_sources, mn_current, mn_udist, mn_v, mn_bad_algo,
                 mn_sssp_calls, wmVars, svVars, udVars, faVars>>

\* sssp.cpp:75-76 (284-285, 388) and 27-33  run(algo, G, s, rounds, ..):
\* rounds calls of algo.sssp(s).  A source outside [0, n) indexes the
\* solver's arrays out of bounds.  s is a local of the loop body.
run_source ==
  /\ mn_pc = "run"
  /\ IF mn_s \notin Verts /\ mn_opts.rounds > 0
     THEN mn_pc' = "undefined" /\ UNCHANGED <<mn_sssp_calls, mn_v, mn_s, mn_mode>>
     ELSE /\ mn_sssp_calls' = mn_sssp_calls + mn_opts.rounds
          /\ mn_s' = 0 /\ mn_mode' = "none"
          /\ IF mn_driver = 2 /\ mn_opts.source # UINT_MAX
             THEN mn_pc' = "returned" /\ UNCHANGED mn_v
             ELSE mn_pc' = "loop" /\ mn_v' = mn_v + 1
  /\ UNCHANGED <<mn_driver, mn_char_signed, mn_nopts, mn_opts, mn_offsets,
                 mn_file_sources, mn_current, mn_udist, mn_bad_algo,
                 mn_picks, mn_rng_used,
                 wmVars, svVars, udVars, faVars>>

NextMain ==
  \/ main_usage
  \/ opt_i \/ opt_a \/ opt_a_unknown \/ opt_p \/ opt_r \/ opt_s \/ opt_v
  \/ opt_d \/ opt_n \/ opt_S \/ opt_z \/ opt_unknown
  \/ getopt_end
  \/ main_read_graph
  \/ sp_construct \/ d2_dispatch
  \/ loop_exit \/ picknext_fixed \/ picknext_file \/ pick_enter \/ pick_draw
  \/ run_source

SpecMain == InitMain /\ [][NextMain]_vars

(***************************************************************************)
(* C8.  With no fixed source and no sources file loaded, every source the  *)
(* picker (or the second driver's loop) returns is a vertex in [0, n) of   *)
(* non-zero out-degree, obtained by the random draw.                       *)
(***************************************************************************)
C8_RandomSourceHasOutEdge ==
  (mn_pc = "run" /\ mn_opts.source = UINT_MAX /\ mn_file_sources = <<>>)
    => /\ mn_mode = "random"
       /\ mn_s \in Verts
       /\ mn_offsets[mn_s + 1] - mn_offsets[mn_s] # 0

\* the third random source of a run, on a graph in which some vertex has
\* no out-edge, picked by the SourcePicker
C8_Witness ==
  /\ mn_pc = "run" /\ mn_mode = "random" /\ mn_driver = 1
  /\ mn_picks = 3
  /\ \E v \in Verts : Degree(v) = 0
  /\ mn_s # 0

(***************************************************************************)
(* C9.  Once -a has named an algorithm other than rho-stepping,            *)
(* delta-stepping and bellman-ford, main is aborted: the graph is never    *)
(* read, no source is picked and sssp() is never called.                   *)
(***************************************************************************)
C9_UnknownAlgorithmAborts ==
  mn_bad_algo =>
    /\ mn_pc = "aborted"
    /\ mn_offsets = <<>>
    /\ mn_picks = 0
    /\ mn_sssp_calls = 0

\* the unknown algorithm came after an input path and a valid algorithm
C9_Witness ==
  /\ mn_bad_algo
  /\ mn_nopts = 3
  /\ mn_opts.input_path # ""
  /\ mn_opts.algorithm = "bellman-ford"

(***************************************************************************)
(* utils.h:84-114  UniDist on its own: one object constructed for every    *)
(* max_value a NodeID_ can hold, then called again and again.  The only    *)
(* instantiation is UniDist<NodeId, std::mt19937_64> (utils.h:202,         *)
(* sssp.cpp:275): rng_() and rng_.max() are RngBits wide, the members and  *)
(* rand_num are uNodeID_, NodeBits wide.                                   *)
(***************************************************************************)
\* utils.h:88-96  max_value + 1 wraps to 0 for the largest NodeID_, and
\* rng_.max() % mod_ then divides by zero.
InitUniDist ==
  /\ ud_max \in 0 .. UINT_MAX
  /\ IF ToNodeID(ud_max + 1) = 0
     THEN ud_dist = <<>> /\ ud_pc = "undefined"
     ELSE ud_dist = UniDist_new(ud_max) /\ ud_pc = "ready"
  /\ ud_raw = 0
  /\ ud_ret = 0
  /\ IdleWM
  /\ IdleSV
  /\ IdleMN
  /\ IdleFA

\* one result raw of rng_(): drawn again, or the call returns
UniDist_sample(raw) ==
  /\ ud_raw' = raw
  /\ IF UniDist_redraws(ud_dist, raw)
     THEN ud_pc' = "loop" /\ UNCHANGED ud_ret
     ELSE ud_pc' = "returned" /\ ud_ret' = UniDist_value(ud_dist, raw)
  /\ UNCHANGED <<ud_max, ud_dist, wmVars, svVars, mnVars, faVars>>

\* utils.h:98-99  operator() is called: rand_num = rng_()
UniDist_call ==
  /\ ud_pc = "ready"
  /\ \E raw \in 0 .. RNG_MAX : UniDist_sample(raw)

\* utils.h:103-104  while (rand_num >= cutoff_) rand_num = rng_()
UniDist_loop ==
  /\ ud_pc = "loop"
  /\ \E raw \in 0 .. RNG_MAX : UniDist_sample(raw)

\* the caller has the value and calls again later
UniDist_returned ==
  /\ ud_pc = "returned"
  /\ ud_pc' = "ready"
  /\ UNCHANGED <<ud_max, ud_dist, ud_raw, ud_ret, wmVars, svVars, mnVars,
                 faVars>>

NextUniDist == UniDist_call \/ UniDist_loop \/ UniDist_returned

SpecUniDist == InitUniDist /\ [][NextUniDist]_vars

\* the raw samples that a call accepts and maps to v
UniDist_accepted(v) ==
  {r \in 0 .. RNG_MAX :
     ~UniDist_redraws(ud_dist, r) /\ UniDist_value(ud_dist, r) = v}

(***************************************************************************)
(* C11.  For a generator of range [0, R] and max_value < R, a constructed  *)
(* UniDist returns only values in [0, max_value]; it draws again exactly   *)
(* for the raw samples r >= R - (R mod (max_value + 1)), and for none when *)
(* R + 1 is a multiple of max_value + 1; and every value in [0, max_value] *)
(* is the image of floor((R + 1) / (max_value + 1)) accepted raw samples.  *)
(***************************************************************************)
C11_UnbiasedSampling ==
  (ud_pc \in {"ready", "loop", "returned"} /\ ud_max < RNG_MAX) =>
    LET m == ud_max + 1
        exact == (RNG_MAX + 1) % m = 0
        cutoff == RNG_MAX - (RNG_MAX % m)
    IN /\ ud_pc = "returned" => ud_ret \in 0 .. ud_max
       /\ ud_pc = "loop" => (~exact /\ ud_raw >= cutoff)
       /\ ud_pc = "returned" => (exact \/ ud_raw < cutoff)
       /\ \A v \in 0 .. ud_max :
            Cardinality(UniDist_accepted(v)) = (RNG_MAX + 1) \div m

(***************************************************************************)
(* C12.  Delta-Stepping bucket bounds.  A relaxation from u along an edge  *)
(* of weight w offers distance[u] + w: with b the bucket of distance[u],   *)
(* the offer lies in bucket b or b + 1 when the edge is light (w <= delta) *)
(* and in a bucket above b when it is heavy (w > delta).  So the offers of *)
(* a heavy pass, and the vertices it improves, lie above the bucket being  *)
(* processed.                                                              *)
(***************************************************************************)
C12_BucketBounds ==
  (sv_algo = "delta-stepping" /\ sv_pc = "relax") =>
    /\ \A t \in DOMAIN sv_tasks :
         t.pc \in {"load", "cas"} =>
           LET b == BucketOf(t.b - t.w) IN
             /\ t.w <= sv_param => BucketOf(t.b) \in {b, b + 1}
             /\ t.w > sv_param => BucketOf(t.b) > b
             /\ sv_phase = "heavy" => BucketOf(t.b) > sv_bucket
    /\ sv_phase = "heavy" =>
         \A v \in DOMAIN Improved : BucketOf(sv_distance[v]) > sv_bucket

\* a heavy pass from a bucket above the first one, in which a relaxation
\* has improved its target, after a light relaxation of the same call
\* moved a vertex into the next bucket
C12_Witness ==
  /\ sv_algo = "delta-stepping" /\ sv_pc = "relax" /\ sv_phase = "heavy"
  /\ sv_bucket > 0
  /\ DOMAIN Improved # {}
  /\ \E e \in LightEdges :
       /\ sv_distance[e[1]] # DIST_MAX
       /\ sv_distance[e[2]] = sv_distance[e[1]] + e[3]
       /\ BucketOf(sv_distance[e[2]]) = BucketOf(sv_distance[e[1]]) + 1

(***************************************************************************)
(* The Bellman-Ford sweep on its own (design 4.2), with every relaxation   *)
(* and the scheduler taking steps as long as they can: a relaxation is a   *)
(* task of the thread pool, which runs every task it is given, and the     *)
(* barrier is passed once all of them have returned.                       *)
(***************************************************************************)
InitBellmanFord == InitSolve /\ sv_algo = "bellman-ford"

NextBellmanFord == relax \/ bf_launch \/ bf_barrier \/ bf_return

SpecBellmanFord == InitBellmanFord /\ [][NextBellmanFord]_vars

FairBellmanFord == SpecBellmanFord /\ WF_vars(NextBellmanFord)

(***************************************************************************)
(* C13.  The Bellman-Ford sweep terminates: under every interleaving of    *)
(* the relaxations of a round the frontier becomes empty and the call      *)
(* returns, and no more than n rounds (n the number of vertices) are ever  *)
(* started.                                                                *)
(***************************************************************************)
C13_BellmanFordTerminates ==
  /\ <>(sv_pc = "solved" /\ sv_frontier = EmptyBag)
  /\ [](sv_round <= NumVerts)

\* the call has returned after exactly n rounds, one of which had a lost
\* compare-and-swap race
C13_Witness ==
  /\ sv_algo = "bellman-ford" /\ sv_pc = "solved"
  /\ sv_round = NumVerts
  /\ sv_retried

(***************************************************************************)
(* utils.h:46-62  fetch_and_add and write_add: concurrent callers on one   *)
(* location.  E is an unsigned integer type; oldV + b is reduced modulo    *)
(* 2^AddBits.  Both functions run the same loop; write_add returns nothing.*)
(***************************************************************************)
ToE(x) == x % (2 ^ AddBits)
Increments == -1 .. MaxInc

\* The callers are interchangeable, so the increments are drawn in
\* non-decreasing order of the caller's number.  The locals are
\* uninitialised and assigned before they are first read.
InitAdd ==
  /\ fa_a \in {0, 2 ^ AddBits - 1}
  /\ fa_x = fa_a
  /\ fa_kind \in [Threads -> {"fetch_and_add", "write_add"}]
  /\ fa_b \in {f \in [Threads -> Increments] :
                 \A s, t \in Threads : s < t => f[s] <= f[t]}
  /\ fa_oldV = [t \in Threads |-> 0]
  /\ fa_newV = [t \in Threads |-> 0]
  /\ fa_pc = [t \in Threads |-> "load"]
  /\ fa_ret = [t \in Threads |-> 0]
  /\ fa_hist = <<>>
  /\ IdleWM
  /\ IdleSV
  /\ IdleMN
  /\ IdleUD

\* utils.h:49-50 (58-59)  oldV = *a; newV = oldV + b
add_load(t) ==
  /\ fa_pc[t] = "load"
  /\ fa_oldV' = [fa_oldV EXCEPT ![t] = fa_a]
  /\ fa_newV' = [fa_newV EXCEPT ![t] = ToE(fa_a + fa_b[t])]
  /\ fa_pc' = [fa_pc EXCEPT ![t] = "cas"]
  /\ UNCHANGED <<fa_a, fa_kind, fa_b, fa_ret, fa_x, fa_hist, wmVars, svVars,
                 mnVars, udVars>>

\* utils.h:51-52 (60)  while (!atomic_compare_and_swap(a, oldV, newV));
\* fetch_and_add then returns oldV
add_cas(t) ==
  /\ fa_pc[t] = "cas"
  /\ LET res == atomic_compare_and_swap(fa_a, fa_oldV[t], fa_newV[t]) IN
       /\ fa_a' = res.val
       /\ fa_pc' = [fa_pc EXCEPT ![t] = IF res.ok THEN "done" ELSE "load"]
       /\ fa_ret' = IF res.ok /\ fa_kind[t] = "fetch_and_add"
                    THEN [fa_ret EXCEPT ![t] = fa_oldV[t]]
                    ELSE fa_ret
       /\ fa_hist' = IF res.ok THEN Append(fa_hist, <<t, fa_a>>) ELSE fa_hist
  /\ UNCHANGED <<fa_kind, fa_b, fa_oldV, fa_newV, fa_x, wmVars, svVars,
                 mnVars, udVars>>

fetch_and_add(t) ==
  fa_kind[t] = "fetch_and_add" /\ (add_load(t) \/ add_cas(t))

write_add(t) ==
  fa_kind[t] = "write_add" /\ (add_load(t) \/ add_cas(t))

NextAdd == \E t \in Threads : fetch_and_add(t) \/ write_add(t)

SpecAdd == InitAdd /\ [][NextAdd]_vars

FAAllDone == \A t \in Threads : fa_pc[t] = "done"

RECURSIVE FASum(_)
FASum(n) == IF n = 0 THEN 0 ELSE fa_b[n] + FASum(n - 1)

RECURSIVE FAMagnitude(_)
FAMagnitude(n) ==
  IF n = 0 THEN 0
  ELSE (IF fa_b[n] < 0 THEN -fa_b[n] ELSE fa_b[n]) + FAMagnitude(n - 1)

\* the callers of fetch_and_add that have returned
FAReturned == {t \in Threads : fa_kind[t] = "fetch_and_add" /\ fa_pc[t] = "done"}

\* the final value is x plus all the increments; every returned value is
\* the value the location held just before the caller's successful
\* compare-and-swap; and these values follow one another by the increments
FANoLostUpdate ==
  /\ FAAllDone => fa_a = ToE(fa_x + FASum(NThreads))
  /\ \A t \in FAReturned :
       \E i \in DOMAIN fa_hist : fa_hist[i] = <<t, fa_ret[t]>>
  /\ \A i \in DOMAIN fa_hist :
       fa_hist[i][2] = IF i = 1 THEN fa_x
                       ELSE ToE(fa_hist[i - 1][2] + fa_b[fa_hist[i - 1][1]])

FAEqualSign == (\A t \in Threads : fa_b[t] > 0) \/ (\A t \in Threads : fa_b[t] < 0)

FADistinctReturns == \A s, t \in FAReturned : s # t => fa_ret[s] # fa_ret[t]

(***************************************************************************)
(* C14 as stated.  fetch_and_add loses no update, and for non-zero         *)
(* increments of equal sign no two calls return the same value.            *)
(***************************************************************************)
C14_DistinctForEqualSign ==
  /\ FANoLostUpdate
  /\ FAEqualSign => FADistinctReturns

(***************************************************************************)
(* C14, amended.  fetch_and_add loses no update, and for non-zero          *)
(* increments of equal sign whose magnitudes add up to less than 2^w (w    *)
(* the width of the type) no two calls return the same value.              *)
(***************************************************************************)
C14_NoLostUpdate ==
  /\ FANoLostUpdate
  /\ (FAEqualSign /\ FAMagnitude(NThreads) < 2 ^ AddBits) => FADistinctReturns

\* three fetch_and_add calls with positive increments have all returned,
\* the caller with the largest increment first, and the sum wrapped
\* around the top of the type
C14_Witness ==
  /\ FAAllDone
  /\ FAReturned = Threads
  /\ FAEqualSign /\ fa_b[1] > 0
  /\ FAMagnitude(NThreads) < 2 ^ AddBits
  /\ fa_hist[1][1] = NThreads
  /\ fa_a < fa_x

(***************************************************************************)
(* C15.  Source-mode priority and frame.  With a fixed source given        *)
(* (source # UINT_MAX) every source picked is that vertex, whether or not  *)
(* a sources file was loaded, and neither the file cursor moves nor is the *)
(* generator called; a source is taken from the file only when no fixed    *)
(* source is given and the list is not empty, and drawn at random only     *)
(* when no fixed source is given and the list is empty.                    *)
(***************************************************************************)
C15_SourceModePriority ==
  /\ mn_opts.source # UINT_MAX =>
       /\ mn_current = 0
       /\ ~mn_rng_used
       /\ mn_mode \in {"none", "fixed"}
       /\ mn_pc = "run" => (mn_mode = "fixed" /\ mn_s = mn_opts.source)
  /\ (mn_mode = "file" \/ mn_current > 0) =>
       (mn_opts.source = UINT_MAX /\ mn_file_sources # <<>>)
  /\ (mn_mode = "random" \/ mn_rng_used) =>
       (mn_opts.source = UINT_MAX /\ mn_file_sources = <<>>)

\* the second PickNext call of a run with a fixed source and a loaded
\* sources file that names another vertex
C15_Witness ==
  /\ mn_pc = "run" /\ mn_mode = "fixed" /\ mn_driver = 1
  /\ mn_picks = 2
  /\ mn_file_sources # <<>>
  /\ mn_file_sources[1] # mn_opts.source
  /\ mn_s = mn_opts.source

(***************************************************************************)
(* C16.  File-driven source order and bounds.  With no fixed source and a  *)
(* non-empty list, the k-th PickNext call returns element k - 1 of the     *)
(* list as long as k is at most the length of the list; the cursor is      *)
(* never reset and moves only in such a call, by one; it is neither        *)
(* wrapped nor checked against the length, so a read outside the list      *)
(* (and only such a read) can end the process or yield an arbitrary value. *)
(***************************************************************************)
C16_FileSourceOrder ==
  /\ [](mn_mode = "file" =>
          /\ mn_current = mn_picks
          /\ (mn_pc = "run" /\ mn_current <= Len(mn_file_sources))
               => mn_s = mn_file_sources[mn_current]
          /\ mn_pc = "crashed" => mn_current > Len(mn_file_sources))
  /\ [][/\ mn_current' \in {mn_current, mn_current + 1}
        /\ mn_current' # mn_current =>
             /\ mn_pc = "loop" /\ mn_mode' = "file"
             /\ mn_opts.source = UINT_MAX /\ mn_file_sources # <<>>]_vars

\* the first two calls read the two elements of the list, the third one
\* read outside it and the process crashed
C16_Witness ==
  /\ mn_mode = "file" /\ mn_pc = "crashed"
  /\ Len(mn_file_sources) = 2
  /\ mn_current = 3
  /\ mn_sssp_calls = 2

(***************************************************************************)
(* The source loop in random mode on its own (utils.h:187-194 with         *)
(* sssp.cpp:72-77, and sssp.cpp:277-286): main was started with -i alone,  *)
(* has read a graph and enters the loop with no fixed source and no        *)
(* sources file.  The process keeps running and the generator is fair:     *)
(* while the draw loop is running, a draw that ends it (an accepted sample *)
(* mapped to a vertex with an out-edge), if there is one, eventually       *)
(* comes.                                                                  *)
(***************************************************************************)
InitPick ==
  /\ mn_driver \in {1, 2}
  /\ mn_char_signed = TRUE
  /\ mn_pc = "loop"
  /\ mn_nopts = 1
  /\ mn_opts = [input_path |-> "graph", algorithm |-> "rho-stepping",
                source |-> UINT_MAX,
                rounds |-> IF mn_driver = 1 THEN NUM_ROUND ELSE NUM_ROUND2,
                sources |-> IF mn_driver = 1 THEN NUM_SRC ELSE NUM_SRC2,
                sources_path |-> ""]
  /\ mn_offsets \in OffsetArrays
  /\ mn_file_sources = <<>>
  /\ mn_current = 0
  /\ mn_udist = UniDist_new(NumVerts - 1)
  /\ mn_v = 0
  /\ mn_s = 0
  /\ mn_mode = "none"
  /\ mn_bad_algo = FALSE
  /\ mn_picks = 0
  /\ mn_sssp_calls = 0
  /\ mn_rng_used = FALSE
  /\ IdleWM
  /\ IdleSV
  /\ IdleUD
  /\ IdleFA

NextPick == loop_exit \/ pick_enter \/ pick_draw \/ run_source

SpecPick == InitPick /\ [][NextPick]_vars

FairPick ==
  /\ SpecPick
  /\ WF_vars(NextPick)
  /\ WF_vars(pick_draw /\ mn_pc' = "run")

(***************************************************************************)
(* C17.  In random mode the draw loop is left exactly when the generator   *)
(* yields a vertex of non-zero out-degree: with a fair generator this      *)
(* eventually happens if some vertex has an out-edge, and on a graph       *)
(* without edges the loop is never left and no source is returned.         *)
(***************************************************************************)
C17_RandomPickTermination ==
  /\ (mn_pc = "pick" /\ \E v \in Verts : Degree(v) # 0)
       ~> (mn_pc = "run" /\ mn_mode = "random" /\ Degree(mn_s) # 0)
  /\ [][mn_pc = "pick" =>
          \/ mn_pc' = "run" /\ Degree(mn_s') # 0
          \/ mn_pc' = "pick" /\ (mn_s' = mn_s \/ Degree(mn_s') = 0)]_vars
  /\ []((mn_pc = "pick" /\ \A v \in Verts : Degree(v) = 0)
          => [](mn_pc = "pick" /\ mn_mode # "random"))

\* the draw loop is running on a graph without edges, after the generator
\* has yielded a vertex other than the initial one
C17_Witness ==
  /\ mn_pc = "pick"
  /\ \A v \in Verts : Degree(v) = 0
  /\ mn_rng_used
  /\ mn_s # 0
  /\ mn_picks = 0

=============================================================================
